---- MODULE Spec2Model ----
(***************************************************************************)
(* Model of the question-answering pipeline of mcp-agents:                 *)
(*   client.py  SQLAgentClient (connect, ask)                              *)
(*   server.py  the six MCP tools and their helpers                        *)
(*                                                                         *)
(* Text is modelled as a sequence of tokens.  A token is a record          *)
(* [k, v]: k is "{", "}", "," or "w" (a run of prose, v its content), or a *)
(* JSON key, and then the token stands for the member  "k": v .            *)
(* A Python str value is a sequence of string pieces, so that an f-string  *)
(* is the concatenation of its pieces.                                     *)
(***************************************************************************)
EXTENDS Integers, Sequences, FiniteSets, TLC

\* ------------------------------------------------------------------ values
\* dict.get(key) of a missing key (Python None).
Absent == <<"<None>">>

\* The keys the payloads of the pipeline carry.
Keys == <<"table", "sql_query", "error", "data">>

\* A decoded JSON object (Python dict) over Keys; Absent marks a missing key.
EmptyDict == [table |-> Absent, sql_query |-> Absent, error |-> Absent, data |-> Absent]

Has(d, key) == d[key] # Absent

\* ------------------------------------------------------------------ tokens
LB == [k |-> "{", v |-> <<>>]
RB == [k |-> "}", v |-> <<>>]
Comma == [k |-> ",", v |-> <<>>]
W(s) == [k |-> "w", v |-> s]
M(key, val) == [k |-> key, v |-> val]

IsMember(tok) == tok.k \in {"table", "sql_query", "error", "data"}

\* ------------------------------------------------------------------ json
RECURSIVE DumpMembers(_, _, _)
DumpMembers(d, i, first) ==
    IF i > Len(Keys) THEN <<>>
    ELSE IF Has(d, Keys[i])
         THEN (IF first THEN <<>> ELSE <<Comma>>) \o <<M(Keys[i], d[Keys[i]])>>
              \o DumpMembers(d, i + 1, FALSE)
         ELSE DumpMembers(d, i + 1, first)

\* json.dumps of a dict.
json_dumps(d) == <<LB>> \o DumpMembers(d, 1, TRUE) \o <<RB>>

\* The text between the braces is a well-formed member list.
MembersOk(body) ==
    \/ Len(body) = 0
    \/ /\ Len(body) % 2 = 1
       /\ \A i \in 1..Len(body) :
            IF i % 2 = 1 THEN IsMember(body[i]) ELSE body[i] = Comma

RECURSIVE LoadMembers(_, _, _)
LoadMembers(body, i, d) ==
    IF i > Len(body) THEN d
    ELSE LoadMembers(body, i + 2, [d EXCEPT ![body[i].k] = body[i].v])

\* json.loads: [ok, obj]; ok = FALSE stands for json.JSONDecodeError.
json_loads(s) ==
    IF /\ Len(s) >= 2
       /\ s[1] = LB
       /\ s[Len(s)] = RB
       /\ MembersOk(SubSeq(s, 2, Len(s) - 1))
    THEN [ok |-> TRUE, obj |-> LoadMembers(SubSeq(s, 2, Len(s) - 1), 1, EmptyDict)]
    ELSE [ok |-> FALSE, obj |-> EmptyDict]

\* str.find / str.rfind of one character: 0-based index, -1 when missing.
find(s, tok) ==
    IF \E i \in 1..Len(s) : s[i] = tok
    THEN (CHOOSE i \in 1..Len(s) : s[i] = tok /\ \A j \in 1..(i - 1) : s[j] # tok) - 1
    ELSE -1

\* Mutant of rfind: the first occurrence is taken.
rfind_first(s, tok) == find(s, tok)

rfind(s, tok) ==
    IF \E i \in 1..Len(s) : s[i] = tok
    THEN (CHOOSE i \in 1..Len(s) : s[i] = tok /\ \A j \in (i + 1)..Len(s) : s[j] # tok) - 1
    ELSE -1

\* Mutant of Slice: the end index is taken as inclusive-exclusive twice.
Slice_short(s, a, b) == SubSeq(s, a + 1, b - 1)

\* s[a:b] for 0 <= a, 0 <= b.
Slice(s, a, b) == SubSeq(s, a + 1, IF b > Len(s) THEN Len(s) ELSE b)

ErrDict(msg) == [EmptyDict EXCEPT !.error = msg]

\* server.py _parse_llm_json_response
_parse_llm_json_response(llm_text_response) ==
    LET start_index == find(llm_text_response, LB)
        end_index == rfind(llm_text_response, RB) + 1
        json_str == Slice(llm_text_response, start_index, end_index)
    IN  IF start_index # -1 /\ end_index # 0
        THEN IF json_loads(json_str).ok
             THEN json_loads(json_str).obj
             ELSE ErrDict(<<"JSON decoding error: ", "JSONDecodeError">>)
        ELSE ErrDict(<<"No valid JSON found in the response.">>)

\* Mutant of ParserCatches: the wrong exception class is named.
ParserCatches_KeyError(cls) == cls = "KeyError"

\* The except clause of _parse_llm_json_response (server.py line 54).
ParserCatches(cls) == cls = "JSONDecodeError"

\* An exception of json.loads leaves _parse_llm_json_response.
_parse_raises(llm_text_response) ==
    /\ find(llm_text_response, LB) # -1
    /\ rfind(llm_text_response, RB) + 1 # 0
    /\ ~json_loads(Slice(llm_text_response, find(llm_text_response, LB),
                         rfind(llm_text_response, RB) + 1)).ok
    /\ ~ParserCatches("JSONDecodeError")

\* Rendering of a text as a str value (the pieces of its tokens in order).
RECURSIVE TextStr(_)
TextStr(t) ==
    IF t = <<>> THEN <<>>
    ELSE (IF Head(t).k = "w" THEN Head(t).v
          ELSE IF IsMember(Head(t)) THEN <<Head(t).k, ": ">> \o Head(t).v
          ELSE <<Head(t).k>>) \o TextStr(Tail(t))

\* ------------------------------------------------------------ environment
\* Bounds of the environment the tools run in.
NumQueries == 1
NumDbErrors == 1

QueryName(n) == <<"SELECT", ToString(n)>>
DbErrorName(n) == <<"no such column", ToString(n)>>

\* Texts a language-model call can answer with (response.content[0].text).
ObjText(d) == json_dumps(d)
QueryObj(n) == [EmptyDict EXCEPT !.sql_query = QueryName(n)]
EntityObj == [EmptyDict EXCEPT !.table = <<"King">>]
Prose == W(<<"Here is the result">>)

\* An object, an object wrapped in prose, or prose without an object.
JsonTexts(objs) ==
    {ObjText(d) : d \in objs}
    \cup {<<Prose>> \o ObjText(d) \o <<Prose>> : d \in objs}
    \cup {<<Prose>>}

\* The outcome of anthropic_client.messages.create(...).content[0].text:
\* an exception e, or a text.
LLMOutcomes(texts) ==
    {[raised |-> TRUE, e |-> <<"APIError">>, text |-> <<>>]}
    \cup {[raised |-> FALSE, e |-> <<>>, text |-> t] : t \in texts}

\* The outcome of the sqlite3 calls of one tool call: which call raises
\* ("connect", "execute", "none"), the exception and the rows fetched.
DbOutcomes ==
    {[raises |-> "none", e |-> <<>>, rows |-> <<"rows", ToString(n)>>] : n \in 1..NumQueries}
    \cup {[raises |-> "execute", e |-> DbErrorName(n), rows |-> <<>>] : n \in 1..NumDbErrors}
    \cup {[raises |-> "connect", e |-> <<"unable to open database file">>, rows |-> <<>>]}

\* ------------------------------------------------------------------ tools
\* The result of a tool function: the text it returns, or raised = TRUE
\* when an exception leaves the function; connects = its calls of
\* sqlite3.connect; opened = connections it opened and did not close with
\* conn.close() (only a finalizer of the interpreter may close those).
Returned(t) == [raised |-> FALSE, text |-> t, connects |-> 0, opened |-> 0]
Raised(n) == [raised |-> TRUE, text |-> <<>>, connects |-> 0, opened |-> n]
UsingDb(r, connects, opened) == [r EXCEPT !.connects = connects, !.opened = opened]

\* server.py get_database_schema: [raised, opened]
get_database_schema(db) ==
    IF db.raises = "connect" THEN [raised |-> TRUE, opened |-> 0]
    ELSE IF db.raises = "execute" THEN [raised |-> TRUE, opened |-> 1]
    ELSE [raised |-> FALSE, opened |-> 0]

ner_generator_dynamic(question, llm) ==
    IF llm.raised
    THEN Returned(json_dumps(ErrDict(<<"Error in ner_generator_dynamic: ">> \o llm.e)))
    ELSE Returned(json_dumps(_parse_llm_json_response(llm.text)))

create_sql(question, ner_dict, llm) ==
    IF llm.raised
    THEN Returned(json_dumps(ErrDict(<<"LLM Error in create_sql: ">> \o llm.e)))
    ELSE Returned(json_dumps([EmptyDict EXCEPT !.sql_query = TextStr(llm.text)]))

validator_sql_agent(question, ner_dict, generated_query_dict, db, llm) ==
    IF get_database_schema(db).raised
    THEN UsingDb(Raised(0), 1, get_database_schema(db).opened)
    ELSE IF llm.raised
    THEN UsingDb(Returned(json_dumps(ErrDict(<<"LLM Error in validator_sql_agent: ">> \o llm.e))),
                 1, 0)
    ELSE UsingDb(Returned(json_dumps(_parse_llm_json_response(llm.text))), 1, 0)

\* Python truthiness of sql_dict.get("sql_query").
Truthy(val) == val # Absent /\ val # <<>>

\* The payload of the except clause of run_sqlite_query (server.py 220-221).
QueryFailed(e) ==
    json_dumps([EmptyDict EXCEPT !.error = <<"Database query failed: ">> \o e,
                                 !.data = <<"[]">>])

\* Mutant of run_sqlite_query: the connection is made before the query text
\* is looked at.
run_sqlite_query_connect_first(sql_dict, db) ==
    IF db.raises = "connect"
    THEN UsingDb(Returned(QueryFailed(db.e)), 1, 0)
    ELSE IF ~Truthy(sql_dict.sql_query)
    THEN UsingDb(Returned(json_dumps([EmptyDict EXCEPT !.error = <<"No SQL query provided.">>,
                                                       !.data = <<"[]">>])), 1, 1)
    ELSE IF db.raises = "none"
    THEN UsingDb(Returned(json_dumps([EmptyDict EXCEPT !.data = db.rows])), 1, 0)
    ELSE UsingDb(Returned(QueryFailed(db.e)), 1, 1)

run_sqlite_query(sql_dict, db) ==
    IF ~Truthy(sql_dict.sql_query)
    THEN Returned(json_dumps([EmptyDict EXCEPT !.error = <<"No SQL query provided.">>,
                                               !.data = <<"[]">>]))
    ELSE IF db.raises = "none"
    THEN UsingDb(Returned(json_dumps([EmptyDict EXCEPT !.data = db.rows])), 1, 0)
    ELSE UsingDb(Returned(QueryFailed(db.e)), 1, IF db.raises = "execute" THEN 1 ELSE 0)

handle_error_agent(failed_sql_query_dict, error_message, llm) ==
    IF llm.raised
    THEN Returned(json_dumps(ErrDict(<<"LLM Error in handle_error_agent: ">> \o llm.e)))
    ELSE Returned(json_dumps(_parse_llm_json_response(llm.text)))

generate_final_answer(question, query_result_dict, llm) ==
    IF llm.raised
    THEN Returned(<<W(<<"Error formulating final answer: ">> \o llm.e)>>)
    ELSE Returned(llm.text)

\* ----------------------------------------------------------------- client
\* The question main asks (client.py line 132 overrides line 127).
MainQuestion == <<"Find Make and Model combinations in King where all vechicles are BEVs?">>

\* The questions of main (client.py lines 127 and 132).
Questions == {<<"How many vehicles are there in King county?">>, MainQuestion}

VARIABLES
    session,             \* self.session is set (not None)
    exit_stack,          \* number of contexts entered on self.exit_stack
    pc,                  \* "new", "idle", the tool whose call ask awaits, "done"
    question,            \* the argument of ask
    ner_dict, sql_dict, validated_sql_dict, db_dict, i,   \* locals of ask
    ret,                 \* the str ask returned (Absent before it returns)
    propagated,          \* an exception left ask
    requests,            \* tool calls sent and not yet served
    response,            \* results delivered to the client and not yet consumed
    calls,               \* history: the requests in the order ask made them
    rets,                \* history: the results in the order ask consumed them
    served,              \* history: the tool runs of the server, in order
    openConns,           \* sqlite connections opened and never closed
    main_pc,             \* main: "start", "try", "finally", "exit"; "none" when the
                         \* client is used by a caller other than main
    cleanups,            \* number of runs of cleanup
    llm_text,            \* the argument of a call of _parse_llm_json_response
    parsed,              \* what that call returned
    parser_pc            \* "idle", "called", "returned", "raised"

vars == <<session, exit_stack, pc, question, ner_dict, sql_dict, validated_sql_dict,
          db_dict, i, ret, propagated, requests, response, calls, rets, served,
          openConns, main_pc, cleanups, llm_text, parsed, parser_pc>>

parserVars == <<llm_text, parsed, parser_pc>>

clientVars == <<session, exit_stack, pc, question, ner_dict, sql_dict,
                validated_sql_dict, db_dict, i, ret, propagated, calls, rets,
                main_pc, cleanups>>

locals == <<ner_dict, sql_dict, validated_sql_dict, db_dict, i>>

\* A tool call: the tool's name and its arguments (unused ones left empty).
Req(tool, q, nd, qd, rd, msg) ==
    [tool |-> tool, question |-> q, ner_dict |-> nd, query_dict |-> qd,
     result_dict |-> rd, error_message |-> msg]

\* What call_tool gives back: an exception e, or a result whose
\* content[0].text is text.
Fault(e) == [fault |-> TRUE, e |-> e, text |-> <<>>]
Result(t) == [fault |-> FALSE, e |-> <<>>, text |-> t]

ClientInit ==
    /\ session = FALSE
    /\ exit_stack = 0
    /\ pc = "new"
    /\ question = Absent
    /\ ner_dict = EmptyDict
    /\ sql_dict = EmptyDict
    /\ validated_sql_dict = EmptyDict
    /\ db_dict = EmptyDict
    /\ i = 0
    /\ ret = Absent
    /\ propagated = FALSE
    /\ requests = {}
    /\ response = <<>>
    /\ calls = <<>>
    /\ rets = <<>>
    /\ served = <<>>
    /\ openConns = 0
    /\ cleanups = 0

Init ==
    /\ ClientInit
    /\ main_pc \in {"start", "none"}
    /\ llm_text = <<>>
    /\ parsed = EmptyDict
    /\ parser_pc = "idle"

\* client.py connect: how far it gets before raising ("ok": it returns).
ConnectOutcomes == {"stdio_client", "ClientSession", "initialize", "ok"}

\* Mutant of Finally: cleanup is the last statement of the try body.
Finally_on_success(raised) == ~raised

\* main runs cleanup in a finally clause: whether the try body raised or
\* not (client.py lines 140-141).
Finally(raised) == TRUE

\* connect, called by main as the first statement of its try body, or by
\* another caller, which goes on after an exception of connect.
Connect ==
    /\ pc = "new"
    /\ \E o \in ConnectOutcomes :
         /\ exit_stack' = (IF o = "stdio_client" THEN 0
                           ELSE IF o = "ClientSession" THEN 1 ELSE 2)
         /\ session' = (o \in {"initialize", "ok"})
         /\ main_pc' = (IF main_pc = "none" THEN "none"
                        ELSE IF o = "ok" THEN "try"
                        ELSE IF Finally(TRUE) THEN "finally" ELSE "exit")
    /\ pc' = "idle"
    /\ UNCHANGED <<question, locals, ret, propagated, requests, response, calls, rets,
                   served, openConns, cleanups, parserVars>>

\* cleanup, run by the finally clause of main: the exit stack closes every
\* context entered on it.
Cleanup ==
    /\ \/ main_pc = "finally"
       \/ main_pc = "try" /\ pc = "done" /\ Finally(propagated)
    /\ cleanups' = cleanups + 1
    /\ exit_stack' = 0
    /\ main_pc' = "exit"
    /\ UNCHANGED <<session, pc, question, locals, ret, propagated, requests, response,
                   calls, rets, served, openConns, parserVars>>

max_retries == 3

\* await self.session.call_tool(tool, args): send the request and suspend.
CallTool(req) ==
    /\ requests' = requests \cup {req}
    /\ calls' = Append(calls, req)
    /\ pc' = req.tool

\* return <str> from ask.
Return(str) ==
    /\ ret' = str
    /\ pc' = "done"
    /\ UNCHANGED <<requests, calls, propagated>>

\* Mutant of Caught: only the faults of the call itself are caught.
Caught_call_only(cls) == cls = "McpError"

\* The except clause of ask: the exception classes it catches.
Caught(cls) == cls \in {"McpError", "JSONDecodeError"}

\* An exception raised inside the try block of ask.
Raise(cls, e) ==
    IF Caught(cls)
    THEN Return(<<"A critical error occurred in the pipeline: ">> \o e)
    ELSE /\ propagated' = TRUE
         /\ pc' = "done"
         /\ UNCHANGED <<ret, requests, calls>>

\* str(None) in an f-string.
Fmt(val) == IF val = Absent THEN <<"None">> ELSE val

\* Mutant of Connected: ask does not look at the session.
Connected_unchecked(s) == TRUE

\* The guard of ask (client.py line 46): self.session is set.
Connected(s) == s

\* ask, called by main after connect returned, or by another caller on a
\* client that has no session.
AskBegin ==
    /\ \/ main_pc = "try" /\ pc = "idle"
       \/ main_pc = "none" /\ pc \in {"new", "idle"} /\ ~session
    /\ \E q \in (IF main_pc = "try" THEN {MainQuestion} ELSE Questions) :
         /\ question' = q
         /\ IF ~Connected(session)
            THEN Return(<<"Error: Not connected to the server.">>)
            ELSE /\ CallTool(Req("ner_generator_dynamic", q, EmptyDict, EmptyDict,
                                 EmptyDict, Absent))
                 /\ UNCHANGED <<ret, propagated>>
    /\ UNCHANGED <<session, exit_stack, locals, response, rets, served, openConns,
                   main_pc, cleanups, parserVars>>

\* The call ask awaits returns: r is the head of response.
Resume(tool) ==
    /\ pc = tool
    /\ response # <<>>
    /\ response' = Tail(response)
    /\ rets' = Append(rets, [tool |-> tool, fault |-> Head(response).fault,
                             text |-> Head(response).text])
    /\ UNCHANGED <<session, exit_stack, question, served, openConns, main_pc, cleanups,
                   parserVars>>

\* json.loads(result.content[0].text) of the awaited call, or the exception.
Decoded == json_loads(Head(response).text)

Failing ==
    IF Head(response).fault THEN [cls |-> "McpError", e |-> Head(response).e]
    ELSE [cls |-> "JSONDecodeError", e |-> <<"Expecting value">>]

Fails == Head(response).fault \/ ~Decoded.ok

\* Mutant of HasError: the test of the error field is inverted.
HasError_inverted(d) == ~Has(d, "error")

\* `"error" not in db_dict` is false (client.py line 85).
HasError(d) == Has(d, "error")

\* Mutants of NextQuery: a failed repair keeps the old query; the repaired
\* query is never assigned.
NextQuery_keep(failed, repaired) == IF Has(repaired, "error") THEN failed ELSE repaired
NextQuery_stale(failed, repaired) == failed

\* The query the next attempt runs, given the one that failed and the
\* decoded result of handle_error_agent (client.py line 106).
NextQuery(failed, repaired) == repaired

\* Mutant of LoopAgain: the loop retries until the query succeeds.
LoopAgain_until_success(n) == TRUE

\* Mutant of LoopAgain: an off-by-one loop bound.
LoopAgain_offbyone(n) == n + 1 <= max_retries

\* The for loop has another iteration after iteration n (0-based).
LoopAgain(n) == n + 1 < max_retries

\* Mutant of FinalAnswerRequest: the result of the previous iteration is sent.
FinalAnswerRequest_stale(q, result) ==
    Req("generate_final_answer", q, EmptyDict, EmptyDict, db_dict, Absent)

\* The arguments of the generate_final_answer call (client.py lines 89-92).
FinalAnswerRequest(q, result) ==
    Req("generate_final_answer", q, EmptyDict, EmptyDict, result, Absent)

\* Mutant of ValidatorRequest: the two dictionaries change places.
ValidatorRequest_swapped(q, nd, qd) ==
    Req("validator_sql_agent", q, qd, nd, EmptyDict, Absent)

\* The arguments of the validator_sql_agent call (client.py lines 66-70).
ValidatorRequest(q, nd, qd) ==
    Req("validator_sql_agent", q, nd, qd, EmptyDict, Absent)

\* Mutant of RepairRequest: the query as first created is sent, not the one
\* that just failed.
RepairRequest_first_query(failed, result) ==
    Req("handle_error_agent", Absent, EmptyDict, sql_dict, EmptyDict, result.error)

\* The arguments of the handle_error_agent call (client.py lines 96-104);
\* result holds an error member on this branch, so get's default is unused.
RepairRequest(failed, result) ==
    Req("handle_error_agent", Absent, EmptyDict, failed, EmptyDict, result.error)

AfterNer ==
    /\ Resume("ner_generator_dynamic")
    /\ IF Fails
       THEN Raise(Failing.cls, Failing.e) /\ UNCHANGED locals
       ELSE /\ ner_dict' = Decoded.obj
            /\ CallTool(Req("create_sql", question, Decoded.obj, EmptyDict, EmptyDict,
                            Absent))
            /\ UNCHANGED <<sql_dict, validated_sql_dict, db_dict, i, ret, propagated>>

AfterSql ==
    /\ Resume("create_sql")
    /\ IF Fails
       THEN Raise(Failing.cls, Failing.e) /\ UNCHANGED locals
       ELSE /\ sql_dict' = Decoded.obj
            /\ CallTool(ValidatorRequest(question, ner_dict, Decoded.obj))
            /\ UNCHANGED <<ner_dict, validated_sql_dict, db_dict, i, ret, propagated>>

AfterValidate ==
    /\ Resume("validator_sql_agent")
    /\ IF Fails
       THEN Raise(Failing.cls, Failing.e) /\ UNCHANGED locals
       ELSE /\ validated_sql_dict' = Decoded.obj
            /\ i' = 0
            /\ CallTool(Req("run_sqlite_query", Absent, EmptyDict, Decoded.obj,
                            EmptyDict, Absent))
            /\ UNCHANGED <<ner_dict, sql_dict, db_dict, ret, propagated>>

AfterRun ==
    /\ Resume("run_sqlite_query")
    /\ IF Fails
       THEN Raise(Failing.cls, Failing.e) /\ UNCHANGED locals
       ELSE /\ db_dict' = Decoded.obj
            /\ IF ~HasError(Decoded.obj)
               THEN CallTool(FinalAnswerRequest(question, Decoded.obj))
               ELSE CallTool(RepairRequest(validated_sql_dict, Decoded.obj))
            /\ UNCHANGED <<ner_dict, sql_dict, validated_sql_dict, i, ret, propagated>>

AfterHandleError ==
    /\ Resume("handle_error_agent")
    /\ IF Fails
       THEN Raise(Failing.cls, Failing.e) /\ UNCHANGED locals
       ELSE /\ validated_sql_dict' = NextQuery(validated_sql_dict, Decoded.obj)
            /\ IF LoopAgain(i)
               THEN /\ i' = i + 1
                    /\ CallTool(Req("run_sqlite_query", Absent, EmptyDict,
                                    validated_sql_dict', EmptyDict, Absent))
                    /\ UNCHANGED <<ret, propagated>>
               ELSE /\ i' = i
                    /\ Return(<<"Failed to execute the query after ",
                                ToString(max_retries), " attempts. Last error: ">>
                              \o Fmt(db_dict.error))
            /\ UNCHANGED <<ner_dict, sql_dict, db_dict>>

AfterAnswer ==
    /\ Resume("generate_final_answer")
    /\ IF Head(response).fault
       THEN Raise("McpError", Head(response).e)
       ELSE Return(TextStr(Head(response).text))
    /\ UNCHANGED locals

\* ----------------------------------------------------------------- server
NumAnswers == 1

NerTexts == JsonTexts({EntityObj}) \cup {<<LB, Prose, RB>>}
SqlTexts == {<<W(QueryName(n))>> : n \in 1..NumQueries} \cup {<<>>}
QueryTexts == JsonTexts({QueryObj(n) : n \in 1..NumQueries})
AnswerTexts == {<<W(<<"answer", ToString(n)>>)>> : n \in 1..NumAnswers}

\* What the MCP layer delivers for a tool run r: the text the tool returned;
\* when the tool raised, an error result or an exception of call_tool.
Deliveries(r) ==
    IF r.raised
    THEN {Fault(<<"tool raised">>), Result(<<W(<<"Error executing tool">>)>>)}
    ELSE {Result(r.text)}

\* The server runs the tool of request req with result r.
Serve(req, r) ==
    /\ requests' = requests \ {req}
    /\ \E d \in Deliveries(r) : response' = Append(response, d)
    /\ served' = Append(served, [tool |-> req.tool, req |-> req, raised |-> r.raised,
                                  connects |-> r.connects, opened |-> r.opened])
    /\ openConns' = openConns + r.opened
    /\ UNCHANGED <<clientVars, parserVars>>

Pending(tool) == {req \in requests : req.tool = tool}

ToolNer ==
    \E req \in Pending("ner_generator_dynamic"), llm \in LLMOutcomes(NerTexts) :
        Serve(req, ner_generator_dynamic(req.question, llm))

ToolCreateSql ==
    \E req \in Pending("create_sql"), llm \in LLMOutcomes(SqlTexts) :
        Serve(req, create_sql(req.question, req.ner_dict, llm))

ToolValidator ==
    \E req \in Pending("validator_sql_agent"), db \in DbOutcomes,
       llm \in LLMOutcomes(QueryTexts) :
        Serve(req, validator_sql_agent(req.question, req.ner_dict, req.query_dict, db, llm))

ToolRunQuery ==
    \E req \in Pending("run_sqlite_query"), db \in DbOutcomes :
        Serve(req, run_sqlite_query(req.query_dict, db))

ToolHandleError ==
    \E req \in Pending("handle_error_agent"), llm \in LLMOutcomes(QueryTexts) :
        Serve(req, handle_error_agent(req.query_dict, req.error_message, llm))

ToolFinalAnswer ==
    \E req \in Pending("generate_final_answer"), llm \in LLMOutcomes(AnswerTexts) :
        Serve(req, generate_final_answer(req.question, req.result_dict, llm))

\* call_tool raises without a result of the tool (the transport fails).
CallFault ==
    \E req \in requests :
        /\ requests' = requests \ {req}
        /\ response' = Append(response, Fault(<<"Connection closed">>))
        /\ UNCHANGED <<served, openConns, parserVars>>
        /\ UNCHANGED clientVars

Next ==
    \/ Connect
    \/ Cleanup
    \/ AskBegin
    \/ AfterNer
    \/ AfterSql
    \/ AfterValidate
    \/ AfterRun
    \/ AfterHandleError
    \/ AfterAnswer
    \/ ToolNer
    \/ ToolCreateSql
    \/ ToolValidator
    \/ ToolRunQuery
    \/ ToolHandleError
    \/ ToolFinalAnswer
    \/ CallFault

Spec == Init /\ [][Next]_vars

\* ----------------------------------------------------------------- parser
\* _parse_llm_json_response on its own, over every text of a bounded length.
MaxTextLen == 6

Alphabet == {LB, RB, Comma, Prose, M("sql_query", QueryName(1)), M("error", <<"e">>)}

Texts == UNION {[1..n -> Alphabet] : n \in 0..MaxTextLen}

ParserInit ==
    /\ ClientInit
    /\ main_pc = "none"
    /\ llm_text \in Texts
    /\ parsed = EmptyDict
    /\ parser_pc = "called"

Parse ==
    /\ parser_pc = "called"
    /\ IF _parse_raises(llm_text)
       THEN parser_pc' = "raised" /\ parsed' = parsed
       ELSE parser_pc' = "returned" /\ parsed' = _parse_llm_json_response(llm_text)
    /\ UNCHANGED <<llm_text, clientVars, requests, response, served, openConns>>

ParserSpec == ParserInit /\ [][Parse]_vars

\* The steps of the coroutines of the client: the event loop resumes a
\* coroutine whose awaited call has completed.
ClientStep ==
    \/ AfterNer
    \/ AfterSql
    \/ AfterValidate
    \/ AfterRun
    \/ AfterHandleError
    \/ AfterAnswer

\* A pending stage call completes: the tool runs, or call_tool raises.
StageStep ==
    \/ ToolNer
    \/ ToolCreateSql
    \/ ToolValidator
    \/ ToolRunQuery
    \/ ToolHandleError
    \/ ToolFinalAnswer
    \/ CallFault

\* Every stage call returns and the client is resumed after it.
FairSpec == Spec /\ WF_vars(ClientStep) /\ WF_vars(StageStep)

\* ================================================================ history
\* The calls ask made to one tool and the results it got from it, in order.
CallsOf(tool) == SelectSeq(calls, LAMBDA c : c.tool = tool)
RetsOf(tool) == SelectSeq(rets, LAMBDA r : r.tool = tool)

ExecCalls == CallsOf("run_sqlite_query")
ExecRets == RetsOf("run_sqlite_query")
RepairCalls == CallsOf("handle_error_agent")
RepairRets == RetsOf("handle_error_agent")
AnswerCalls == CallsOf("generate_final_answer")
AnswerRets == RetsOf("generate_final_answer")

\* A result that is a decodable payload; its payload.
IsPayload(r) == ~r.fault /\ json_loads(r.text).ok
Payload(r) == json_loads(r.text).obj
IsErrorPayload(r) == IsPayload(r) /\ Has(Payload(r), "error")
IsSuccessPayload(r) == IsPayload(r) /\ ~Has(Payload(r), "error")

\* str contains the pieces of msg, in order and adjacent.
Embeds(str, msg) ==
    \E k \in 0..(Len(str) - Len(msg)) : SubSeq(str, k + 1, k + Len(msg)) = msg

Done == pc = "done"

\* execute_query returned an error on each of the max_retries attempts.
AllAttemptsFailed ==
    /\ Len(ExecRets) = max_retries
    /\ \A n \in 1..max_retries : IsErrorPayload(ExecRets[n])

TerminalMessage(err) ==
    <<"Failed to execute the query after ", ToString(max_retries),
      " attempts. Last error: ">> \o err

CriticalPrefix == <<"A critical error occurred in the pipeline: ">>

PreLoopTools == {"ner_generator_dynamic", "create_sql", "validator_sql_agent"}

\* ================================================================= claims
\* C1: when execute_query fails on all max_retries (3) attempts of an ask,
\* exactly 3 run_sqlite_query calls and exactly 2 handle_error_agent calls
\* are made: no repair follows the failure of the last attempt.
C1_ThreeExecutesTwoRepairs ==
    AllAttemptsFailed => Len(ExecCalls) = 3 /\ Len(RepairCalls) = 2

\* C2: a pre-loop stage (extract, synthesize, validate) that returns an
\* error payload short-circuits the pipeline: no later stage is invoked.
C2_ErrorPayloadShortCircuits ==
    \A k \in 1..Len(rets) :
        (rets[k].tool \in PreLoopTools /\ IsErrorPayload(rets[k])) => Len(calls) = k

\* C3: when execute_query first succeeds on attempt k (1 <= k <= 3), exactly
\* k run_sqlite_query calls and k-1 handle_error_agent calls are made, and
\* generate_final_answer is called exactly once, with the result of attempt
\* k; the text it returns is what ask returns.
C3_SuccessOnAttemptK ==
    \A k \in 1..Len(ExecRets) :
        IsSuccessPayload(ExecRets[k]) =>
            /\ k <= max_retries
            /\ \A j \in 1..(k - 1) : IsErrorPayload(ExecRets[j])
            /\ Len(ExecCalls) = k
            /\ Len(RepairCalls) = k - 1
            /\ Len(AnswerCalls) = 1
            /\ AnswerCalls[1].result_dict = Payload(ExecRets[k])
            /\ (Len(AnswerRets) = 1 /\ ~AnswerRets[1].fault)
                   => Done /\ ret = TextStr(AnswerRets[1].text)

C3_Witness ==
    /\ Done
    /\ Len(ExecRets) = max_retries
    /\ IsSuccessPayload(ExecRets[max_retries])
    /\ Len(AnswerRets) = 1
    /\ ~AnswerRets[1].fault
    /\ ret = TextStr(AnswerRets[1].text)

\* A fault was raised inside the try block of ask: a call raised, or the
\* text of a result that ask decodes did not decode.
FaultRaised ==
    \E k \in 1..Len(rets) :
        \/ rets[k].fault
        \/ rets[k].tool # "generate_final_answer" /\ ~json_loads(rets[k].text).ok

\* C4: ask returns a string whatever the stages do and never lets a fault
\* reach its caller; a fault raised in the pipeline yields the message
\* 'A critical error occurred in the pipeline: ...'.
C4_AskIsTotal ==
    /\ ~propagated
    /\ Done => ret # Absent
    /\ FaultRaised =>
          /\ Done
          /\ Len(ret) > Len(CriticalPrefix)
          /\ SubSeq(ret, 1, Len(CriticalPrefix)) = CriticalPrefix

C4_Witness ==
    /\ Done
    /\ ~propagated
    /\ \E k \in 1..Len(rets) : ~rets[k].fault /\ ~json_loads(rets[k].text).ok
    /\ ret = CriticalPrefix \o <<"Expecting value">>

\* C5: when execute_query returns an error on all 3 attempts, ask returns
\* the terminal-failure message with the error of the third result and the
\* attempt count, whatever the repair stage did.
C5_TerminalMessageWhenAllFail ==
    (Done /\ AllAttemptsFailed) =>
        ret = TerminalMessage(Payload(ExecRets[max_retries]).error)

\* C6: a pre-loop stage that fails with an error payload ends the pipeline
\* with that stage's message: ask returns a string carrying it, and no
\* run_sqlite_query and no handle_error_agent call is made.
C6_PreLoopErrorEndsPipeline ==
    \A k \in 1..Len(rets) :
        (rets[k].tool \in PreLoopTools /\ IsErrorPayload(rets[k])) =>
            /\ Len(ExecCalls) = 0
            /\ Len(RepairCalls) = 0
            /\ Done => Embeds(ret, Payload(rets[k]).error)

\* handle_error_agent returned a payload without a usable query (the LLM
\* call raised, or its text did not parse).
UnusableRepair(n) ==
    /\ IsPayload(RepairRets[n])
    /\ ~Truthy(Payload(RepairRets[n]).sql_query)

\* C7: a repair on attempt n < 3 that yields no usable query does not end
\* the loop: run_sqlite_query is called as attempt n+1 with that payload,
\* and the attempt fails, using up one unit of the retry budget.
C7_FailedRepairUsesOneAttempt ==
    \A n \in 1..Len(RepairRets) :
        (n < max_retries /\ UnusableRepair(n)) =>
            /\ Len(ExecCalls) >= n + 1
            /\ ExecCalls[n + 1].query_dict = Payload(RepairRets[n])
            /\ (Len(ExecRets) >= n + 1 /\ ~ExecRets[n + 1].fault)
                   => IsErrorPayload(ExecRets[n + 1])

C7_Witness ==
    \E n \in 1..Len(RepairRets) :
        /\ n < max_retries
        /\ UnusableRepair(n)
        /\ Len(ExecRets) >= n + 1
        /\ IsErrorPayload(ExecRets[n + 1])
        /\ Payload(ExecRets[n + 1]).error = <<"No SQL query provided.">>
        /\ ExecCalls[n].query_dict # ExecCalls[n + 1].query_dict

\* C8: no stage tool lets an exception leave it: every fault inside a tool
\* becomes an error payload.
C8_ToolsNeverRaise ==
    \A k \in 1..Len(served) : ~served[k].raised

\* The tools ask may call as its k-th call.
AllowedAt(k) ==
    IF k = 1 THEN {"ner_generator_dynamic"}
    ELSE IF k = 2 THEN {"create_sql"}
    ELSE IF k = 3 THEN {"validator_sql_agent"}
    ELSE IF k % 2 = 0 THEN {"run_sqlite_query"}
    ELSE {"handle_error_agent", "generate_final_answer"}

C10_OneLiveArtifact ==
    /\ Len(ExecCalls) >= 1 =>
          ExecCalls[1].query_dict = Payload(RetsOf("validator_sql_agent")[1])
    /\ \A n \in 1..(Len(ExecCalls) - 1) :
          ExecCalls[n + 1].query_dict = Payload(RepairRets[n])
    /\ pc = "run_sqlite_query" =>
          validated_sql_dict = ExecCalls[Len(ExecCalls)].query_dict

C10_Witness ==
    /\ Len(ExecCalls) = max_retries
    /\ ExecCalls[1].query_dict # ExecCalls[2].query_dict
    /\ ExecCalls[2].query_dict # ExecCalls[3].query_dict
    /\ ExecCalls[1].query_dict # ExecCalls[3].query_dict
    /\ ExecCalls[3].query_dict = Payload(RepairRets[2])

\* C11: only an execution error triggers the repair: every
\* handle_error_agent call directly follows a run_sqlite_query call whose
\* result carries an error field; no other failure leads to a repair call.
C11_RepairOnlyAfterExecutionError ==
    \A k \in 1..Len(calls) :
        calls[k].tool = "handle_error_agent" =>
            /\ k > 1
            /\ calls[k - 1].tool = "run_sqlite_query"
            /\ IsErrorPayload(rets[k - 1])

C11_Witness ==
    /\ Len(RepairCalls) = 2
    /\ IsErrorPayload(ExecRets[2])
    /\ \E k \in 1..3 : IsErrorPayload(rets[k])

\* C12: the session and its transport are released on every exit path of
\* main: once connect was attempted, main exits only after cleanup ran,
\* exactly once, whether connect raised or ask returned an answer or a
\* failure message; cleanup closes every context of the exit stack.
C12_CleanupOnEveryExit ==
    /\ cleanups <= 1
    /\ main_pc \in {"start", "try", "finally"} => cleanups = 0
    /\ main_pc = "exit" => cleanups = 1 /\ exit_stack = 0
    /\ (main_pc = "try" /\ Done) => ENABLED Cleanup

C12_Witness ==
    /\ main_pc = "exit"
    /\ cleanups = 1
    /\ ~session
    /\ calls = <<>>

\* C13: the retry loop is bounded and ask terminates: an ask makes at most
\* max_retries (3) run_sqlite_query calls and, every stage call returning,
\* an ask that has started eventually returns.
C13_BoundedAndTerminates ==
    /\ [](Len(ExecCalls) <= max_retries)
    /\ (question # Absent) ~> Done

C13_Witness ==
    /\ Done
    /\ Len(ExecCalls) = max_retries
    /\ Len(rets) = 3 + 2 * max_retries


\* C16: the question and the entities are never changed: every call that
\* takes the question carries the question ask was given, and create_sql
\* and validator_sql_agent carry the entities that ner_generator_dynamic
\* returned, whatever the number of attempts and repairs.
TakesQuestion ==
    {"ner_generator_dynamic", "create_sql", "validator_sql_agent", "generate_final_answer"}

C16_QuestionAndEntitiesUnchanged ==
    /\ \A k \in 1..Len(calls) :
        /\ calls[k].tool \in TakesQuestion =>
              calls[k].question = question /\ question = calls[1].question
        /\ calls[k].tool \in {"create_sql", "validator_sql_agent"} =>
              /\ rets[1].tool = "ner_generator_dynamic"
              /\ IsPayload(rets[1])
              /\ calls[k].ner_dict = Payload(rets[1])
    /\ Len(calls) >= 2 => ner_dict = Payload(rets[1])

C16_Witness ==
    /\ Len(RepairCalls) = 2
    /\ Len(AnswerCalls) = 1
    /\ calls[Len(calls)].question = MainQuestion
    /\ calls[3].tool = "validator_sql_agent"
    /\ calls[3].ner_dict = EntityObj
    /\ ner_dict = EntityObj

\* C17: every handle_error_agent call carries the query of the
\* run_sqlite_query call just before it and the error of that call's result.
C17_RepairGetsFailedQueryAndError ==
    \A k \in 1..Len(calls) :
        calls[k].tool = "handle_error_agent" =>
            /\ k > 1
            /\ calls[k - 1].tool = "run_sqlite_query"
            /\ calls[k].query_dict = calls[k - 1].query_dict
            /\ rets[k - 1].tool = "run_sqlite_query"
            /\ IsErrorPayload(rets[k - 1])
            /\ calls[k].error_message = Payload(rets[k - 1]).error

C17_Witness ==
    /\ Len(RepairCalls) = 2
    /\ RepairCalls[1].query_dict # RepairCalls[2].query_dict
    /\ RepairCalls[1].error_message # RepairCalls[2].error_message
    /\ RepairCalls[2].query_dict = ExecCalls[2].query_dict


\* C18: run_sqlite_query given a dictionary whose sql_query is missing or
\* empty makes no connection and returns an error with empty data; the
\* client then asks for a repair, never for the final answer.
Unusable(req) == ~Truthy(req.query_dict.sql_query)

C18_NoQueryNoConnection ==
    \A k \in 1..Len(served) :
        (served[k].tool = "run_sqlite_query" /\ Unusable(served[k].req)) =>
            /\ served[k].connects = 0
            /\ served[k].opened = 0
            /\ ~served[k].raised
            /\ calls[k] = served[k].req
            /\ k <= Len(rets) =>
                  /\ IsErrorPayload(rets[k])
                  /\ Payload(rets[k]).error = <<"No SQL query provided.">>
                  /\ Payload(rets[k]).data = <<"[]">>
            /\ k < Len(calls) => calls[k + 1].tool = "handle_error_agent"

C18_Witness ==
    \E k \in 1..Len(served) :
        /\ served[k].tool = "run_sqlite_query"
        /\ Has(served[k].req.query_dict, "error")
        /\ Unusable(served[k].req)
        /\ served[k].connects = 0
        /\ k < Len(calls)
        /\ calls[k + 1].tool = "handle_error_agent"
        /\ openConns = 0

\* C19: ask on a client without a session returns the not-connected
\* message at once: it calls no tool and changes no field of the client.
C19_AskWithoutSession ==
    [][(question = Absent /\ question' # Absent /\ ~session) =>
          /\ pc' = "done"
          /\ ret' = <<"Error: Not connected to the server.">>
          /\ ~propagated'
          /\ UNCHANGED <<session, exit_stack, locals, requests, response, calls, rets,
                         served, openConns, cleanups>>]_vars

C19_Witness ==
    /\ ~session
    /\ question \in Questions
    /\ pc = "done"
    /\ ret = <<"Error: Not connected to the server.">>
    /\ calls = <<>>

\* C20: every connection run_sqlite_query opens is closed when it returns,
\* whether the query succeeded or raised.
C20_ConnectionsClosedOnReturn ==
    \A k \in 1..Len(served) :
        served[k].tool = "run_sqlite_query" => served[k].opened = 0

\* --------------------------------------------------------- parser claims
Parsed == parser_pc \in {"returned", "raised"}

\* The two diagnostics of _parse_llm_json_response.
IsParseFailure(d) ==
    \/ d = ErrDict(<<"JSON decoding error: ", "JSONDecodeError">>)
    \/ d = ErrDict(<<"No valid JSON found in the response.">>)

IsProse(t) == \A k \in 1..Len(t) : t[k].k = "w"

\* The span from the first "{" to the last "}" of t (empty when the last
\* "}" precedes the first "{").
HasBraces(t) == (\E k \in 1..Len(t) : t[k] = LB) /\ (\E k \in 1..Len(t) : t[k] = RB)
FirstOpen(t) == CHOOSE k \in 1..Len(t) : t[k] = LB /\ \A j \in 1..(k - 1) : t[j] # LB
LastClose(t) == CHOOSE k \in 1..Len(t) : t[k] = RB /\ \A j \in (k + 1)..Len(t) : t[j] # RB
Span(t) == SubSeq(t, FirstOpen(t), LastClose(t))

\* t is two top-level objects, with prose before, between and after them.
TwoObjects(t) ==
    /\ HasBraces(t)
    /\ IsProse(SubSeq(t, 1, FirstOpen(t) - 1))
    /\ IsProse(SubSeq(t, LastClose(t) + 1, Len(t)))
    /\ \E b, c \in 1..Len(t) :
        /\ FirstOpen(t) < b /\ b < c /\ c < LastClose(t)
        /\ json_loads(SubSeq(t, FirstOpen(t), b)).ok
        /\ json_loads(SubSeq(t, c, LastClose(t))).ok
        /\ IsProse(SubSeq(t, b + 1, c - 1))

\* C14 as stated: given two top-level objects the parser returns a single
\* structured object, not a ParseFailure.
C14_TwoObjectsGiveAnObject ==
    (Parsed /\ TwoObjects(llm_text)) =>
        parser_pc = "returned" /\ ~IsParseFailure(parsed)

\* C14 amended: given two top-level objects the parser tries the single
\* span from the first "{" to the last "}", which does not decode, and
\* returns the decoding-error ParseFailure.
C14_TwoObjectsGiveParseFailure ==
    (Parsed /\ TwoObjects(llm_text)) =>
        /\ parser_pc = "returned"
        /\ parsed = ErrDict(<<"JSON decoding error: ", "JSONDecodeError">>)

C14_Witness ==
    /\ parser_pc = "returned"
    /\ llm_text = <<LB, M("sql_query", QueryName(1)), RB, LB, M("error", <<"e">>), RB>>
    /\ IsParseFailure(parsed)

\* C15: the parser is total and strict: it never raises; a text without
\* "{" or without "}", or whose span from the first "{" to the last "}"
\* does not decode, gives a ParseFailure; any other text gives exactly the
\* decoding of that span, whatever prose surrounds it.
C15_ParserTotalAndStrict ==
    Parsed =>
        /\ parser_pc = "returned"
        /\ IF HasBraces(llm_text) /\ json_loads(Span(llm_text)).ok
           THEN parsed = json_loads(Span(llm_text)).obj
           ELSE IsParseFailure(parsed)

C15_Witness ==
    /\ parser_pc = "returned"
    /\ llm_text = <<Prose, LB, M("sql_query", QueryName(1)), RB, Prose>>
    /\ parsed = QueryObj(1)
====
